---- MODULE Spec2Model ----
(***************************************************************************)
(* Motion clip extractor (src/src/motion_detection.py, src/src/utils.py,   *)
(* src/src/constants.py): the batch pipeline process_videos ->             *)
(* process_video -> detect_motion_ranges_with_progress ->                  *)
(* merge_motion_ranges -> extract_clip.                                    *)
(*                                                                         *)
(* Time is an integer number of ticks, TicksPerSecond ticks to the second; *)
(* the fps values of the model divide TicksPerSecond, so frame_idx / fps   *)
(* and frame_count / fps are exact.  Floating-point rounding is not        *)
(* modelled; the rounding of f"{x:.3f}" in extract_clip is.  Areas are     *)
(* integer pixel counts; the threshold percentages are kept in hundredths  *)
(* of a percent (0.05 % is 5, 0.25 % is 25).                               *)
(*                                                                         *)
(* The settings of constants.py that the claims quantify over (the two     *)
(* thresholds, MERGE_GAP, the buffers, MIN_CLIP_DURATION) are variables    *)
(* fixed by Init and never changed afterwards.                             *)
(***************************************************************************)
EXTENDS Integers, Sequences, FiniteSets, TLC

VARIABLES
    \* constants.py, fixed for the whole run
    MOTION_THRESHOLD_PERCENT_MIN, MOTION_THRESHOLD_PERCENT_MAX,
    MIN_CLIP_DURATION, MERGE_GAP, BUFFER_BEFORE, BUFFER_AFTER,
    \* process_videos
    pc, video_idx, total_clips,
    \* process_video
    duration, ranges, merged, clips_extracted, range_pos,
    \* detect_motion_ranges_with_progress
    fps, frame_idx, motion_frames, tracking, track_start,
    has_dramatic_motion, confirmed_ranges,
    \* history: the samples scored in the current video, the exporter calls
    \* of the current video (video index, start, end, outcome, then the
    \* command line: input path, -ss and -t in thousandths of a second,
    \* output name), the value process_video returned per video
    samples, export_log, returned,
    \* second application of merge_motion_ranges (merge harness only)
    remerged,
    \* the most frames the capture being read can deliver
    frame_limit,
    \* the list given to process_videos
    video_files,
    \* what get_video_start_time gives for each path: the recording's
    \* wall-clock start, in ticks
    start_time_of,
    \* what cv2.VideoCapture gave for the current video: isOpened() in
    \* get_video_duration, isOpened() in the detector, CAP_PROP_FPS,
    \* CAP_PROP_FRAME_COUNT
    capture

config == <<MOTION_THRESHOLD_PERCENT_MIN, MOTION_THRESHOLD_PERCENT_MAX,
            MIN_CLIP_DURATION, MERGE_GAP, BUFFER_BEFORE, BUFFER_AFTER>>
batch == <<pc, video_idx, total_clips>>
video == <<duration, ranges, merged, clips_extracted, range_pos>>
detector == <<fps, frame_idx, motion_frames, tracking, track_start,
              has_dramatic_motion, confirmed_ranges>>
history == <<samples, export_log, returned>>
environment == <<frame_limit, video_files, start_time_of>>
vars == <<config, batch, video, detector, history, remerged, environment,
          capture>>

----------------------------------------------------------------------------
(* Program constants and model bounds *)

FRAME_SKIP == 4
FALLBACK_FPS == 30
\* one tick is half a frame period at FALLBACK_FPS
TicksPerSecond == 2 * FALLBACK_FPS
\* percentages are hundredths of a percent: pct / 100 / 100 of the area
PercentScale == 100 * 100

\* videos in the batch
NumVideos == 2
\* frames a video can hold
MaxFrames == 9
\* frame size of the videos
FrameWidth == 100
FrameHeight == 100

\* reported frames-per-second values (0: missing)
FpsValues == {0, 4, FALLBACK_FPS}
\* reported frame counts (CAP_PROP_FRAME_COUNT)
FrameCountValues == {0, 1, MaxFrames}
\* largest-contour areas a sampled frame can score
ScoreValues == {0, 10, 30}

Max(a, b) == IF a >= b THEN a ELSE b
Min(a, b) == IF a <= b THEN a ELSE b

----------------------------------------------------------------------------
(* merge_motion_ranges *)

\* sorted(ranges, key=lambda r: r[0]): stable, ascending by start.
\* s is sorted, so the ranges starting no later than r are a prefix of it.
InsertByStart(s, r) ==
    LET k == Cardinality({i \in 1..Len(s) : s[i][1] <= r[1]})
    IN  SubSeq(s, 1, k) \o <<r>> \o SubSeq(s, k + 1, Len(s))

RECURSIVE SortByStart(_)
SortByStart(s) ==
    IF s = <<>> THEN <<>>
    ELSE InsertByStart(SortByStart(SubSeq(s, 1, Len(s) - 1)), s[Len(s)])

\* mutant of ShouldExtend: the comparison is the wrong way round
ShouldExtendInverted(start, current_end) == start - current_end > MERGE_GAP

\* mutant of ShouldExtend: a gap of exactly MERGE_GAP is not merged
ShouldExtendStrict(start, current_end) == start - current_end < MERGE_GAP

\* if start - current_end <= MERGE_GAP
ShouldExtend(start, current_end) == start - current_end <= MERGE_GAP

\* current_end = max(current_end, end)
ExtendedEnd(current_end, end) == Max(current_end, end)

\* the loop over sorted_ranges[1:], with the running range and the list so far
RECURSIVE MergeLoop(_, _, _, _)
MergeLoop(rest, current_start, current_end, acc) ==
    IF rest = <<>> THEN Append(acc, <<current_start, current_end>>)
    ELSE LET start == rest[1][1]
             end == rest[1][2]
         IN  IF ShouldExtend(start, current_end)
             THEN MergeLoop(Tail(rest), current_start,
                            ExtendedEnd(current_end, end), acc)
             ELSE MergeLoop(Tail(rest), start, end,
                            Append(acc, <<current_start, current_end>>))

\* the list `merged` of a non-empty sorted list
MergeNearby(sorted_ranges) ==
    MergeLoop(Tail(sorted_ranges), sorted_ranges[1][1], sorted_ranges[1][2], <<>>)

\* mutant of TooShort: the buffers count towards the duration
TooShortBuffered(r) ==
    (r[2] + BUFFER_AFTER) - (r[1] - BUFFER_BEFORE) < MIN_CLIP_DURATION

\* if duration < MIN_CLIP_DURATION: continue
TooShort(r) == r[2] - r[1] < MIN_CLIP_DURATION

\* buffered_start, buffered_end
Buffered(r, video_duration) ==
    <<Max(0, r[1] - BUFFER_BEFORE), Min(video_duration, r[2] + BUFFER_AFTER)>>

\* final_ranges of a merged list
BufferAndFilter(m, video_duration) ==
    LET Keep(r) == ~TooShort(r)
        kept == SelectSeq(m, Keep)
    IN  [i \in 1..Len(kept) |-> Buffered(kept[i], video_duration)]

\* the local list `merged` ([] on the early return for no ranges)
MergedRanges(rs) == IF rs = <<>> THEN <<>> ELSE MergeNearby(SortByStart(rs))

\* mutant of merge_motion_ranges: the ranges are passed on as the detector
\* gave them
RawRanges(rs, video_duration) == rs

merge_motion_ranges(rs, video_duration) ==
    IF rs = <<>> THEN <<>>
    ELSE BufferAndFilter(MergedRanges(rs), video_duration)

----------------------------------------------------------------------------
(* detect_motion_ranges_with_progress *)

\* frame_width * frame_height
frame_area == FrameWidth * FrameHeight

\* frame_max_area >= threshold_min, threshold_min = frame_area * (MIN / 100)
AboveMin(frame_max_area) ==
    frame_max_area * PercentScale >= frame_area * MOTION_THRESHOLD_PERCENT_MIN

\* frame_max_area >= threshold_max, threshold_max = frame_area * (MAX / 100)
AboveMax(frame_max_area) ==
    frame_max_area * PercentScale >= frame_area * MOTION_THRESHOLD_PERCENT_MAX

\* current_time = frame_idx / fps
current_time == (frame_idx * TicksPerSecond) \div fps

\* fps = cap.get(CAP_PROP_FPS); if fps <= 0: fps = FALLBACK_FPS
DetectorFps(reported) == IF reported <= 0 THEN FALLBACK_FPS ELSE reported

\* get_video_duration: 0.0 when the capture does not open or fps <= 0
get_video_duration(opened, reported_fps, frame_count) ==
    IF ~opened THEN 0
    ELSE IF reported_fps <= 0 THEN 0
    ELSE (frame_count * TicksPerSecond) \div reported_fps

\* mutant of Skipped: every frame is scored
SkippedNever == FALSE

\* the frame is one the loop skips: frame_idx % FRAME_SKIP != 0
Skipped == frame_idx % FRAME_SKIP # 0

\* cap.read() returns a frame that the loop skips
SkipFrame ==
    /\ pc = "scan"
    /\ frame_idx < frame_limit
    /\ Skipped
    /\ frame_idx' = frame_idx + 1
    /\ UNCHANGED <<config, batch, video, history, remerged, environment,
                   capture, fps, motion_frames, tracking, track_start,
                   has_dramatic_motion, confirmed_ranges>>

\* mutant of Emit: the new range is put first
EmitFirst(list, r) == <<r>> \o list

\* confirmed_ranges.append(r)
Emit(list, r) == Append(list, r)

\* mutant of StartOfTrack: the start moves with every frame at or above MIN
StartOfTrackMoved == current_time

\* track_start after a frame at or above MIN: set only `if not tracking`
StartOfTrack == IF ~tracking THEN current_time ELSE track_start

\* has_dramatic_motion after a frame at or above MIN: cleared when tracking
\* starts, set when the frame is at or above MAX
Confirmation(frame_max_area) ==
    IF AboveMax(frame_max_area) THEN TRUE
    ELSE IF ~tracking THEN FALSE
    ELSE has_dramatic_motion

\* mutant of Flushed: the range is saved whether confirmed or not
FlushedUnconfirmed == Emit(confirmed_ranges, <<track_start, current_time>>)

\* confirmed_ranges after a frame below MIN while tracking
Flushed ==
    IF has_dramatic_motion
    THEN Emit(confirmed_ranges, <<track_start, current_time>>)
    ELSE confirmed_ranges

\* mutant of ResetConfirmation: the flag is left as it was
ResetConfirmationMissing == has_dramatic_motion

\* has_dramatic_motion after a frame below MIN while tracking: reset state
ResetConfirmation == FALSE

\* cap.read() returns a sampled frame whose largest contour has the given
\* area: one pass of the hysteresis state machine
SampleFrame(frame_max_area) ==
    /\ pc = "scan"
    /\ frame_idx < frame_limit
    /\ ~Skipped
    /\ samples' = Append(samples, <<current_time, frame_max_area>>)
    /\ IF AboveMin(frame_max_area)
       THEN /\ motion_frames' = motion_frames + 1
            /\ tracking' = TRUE
            /\ track_start' = StartOfTrack
            /\ has_dramatic_motion' = Confirmation(frame_max_area)
            /\ UNCHANGED confirmed_ranges
       ELSE IF tracking
       THEN /\ confirmed_ranges' = Flushed
            /\ tracking' = FALSE
            /\ has_dramatic_motion' = ResetConfirmation
            /\ UNCHANGED <<motion_frames, track_start>>
       ELSE UNCHANGED <<motion_frames, tracking, track_start,
                        has_dramatic_motion, confirmed_ranges>>
    /\ frame_idx' = frame_idx + 1
    /\ UNCHANGED <<config, batch, video, fps, export_log, returned, remerged,
                   environment, capture>>

\* mutant of FinalRanges: the range still tracked is not appended
FinalRangesUnflushed == confirmed_ranges

\* confirmed_ranges when the loop has ended: the range still tracked is
\* appended with the duration as its end
FinalRanges ==
    IF tracking /\ has_dramatic_motion
    THEN Emit(confirmed_ranges, <<track_start, duration>>)
    ELSE confirmed_ranges

\* cap.read() returns no frame: the loop ends, the function returns
EndOfStream ==
    /\ pc = "scan"
    /\ confirmed_ranges' = FinalRanges
    /\ pc' = "merge"
    /\ UNCHANGED <<config, video_idx, total_clips, video, history, remerged,
                   environment, capture, fps, frame_idx, motion_frames,
                   tracking, track_start, has_dramatic_motion>>

----------------------------------------------------------------------------
(* process_videos, process_video, extract_clip *)

\* what subprocess.run does in extract_clip: the tool runs, the tool fails
\* (CalledProcessError), the tool is not there (FileNotFoundError)
ExportOutcomes == {"ok", "error", "missing"}

\* mutant of NoClips: the count of the video before is returned again
NoClipsStale == clips_extracted

\* if duration <= 0: return 0
NoClips == 0

\* a new call of process_video, up to the first cap.read(): its locals are
\* fresh, the duration comes from the metadata, an unreadable video returns
\* 0 at once; otherwise the detector opens the file again and starts in its
\* initial state, or returns no ranges when that second open fails
StartVideo(opened, reopened, reported_fps, frame_count) ==
    /\ pc = "next_video"
    /\ video_idx <= NumVideos
    /\ duration' = get_video_duration(opened, reported_fps, frame_count)
    /\ samples' = <<>>
    /\ export_log' = <<>>
    /\ ranges' = <<>>
    /\ merged' = <<>>
    /\ clips_extracted' = 0
    /\ range_pos' = 1
    /\ capture' = <<opened, reopened, reported_fps, frame_count>>
    /\ IF duration' <= 0
       THEN /\ returned' = Append(returned, NoClips)
            /\ total_clips' = total_clips + NoClips
            /\ video_idx' = video_idx + 1
            /\ UNCHANGED <<pc, detector>>
       ELSE /\ fps' = DetectorFps(reported_fps)
            /\ confirmed_ranges' = <<>>
            /\ frame_idx' = 0
            /\ motion_frames' = 0
            /\ tracking' = FALSE
            /\ track_start' = 0
            /\ has_dramatic_motion' = FALSE
            /\ pc' = IF reopened THEN "scan" ELSE "merge"
            /\ UNCHANGED <<video_idx, total_clips, returned>>
    /\ UNCHANGED <<config, remerged, environment>>

\* ranges = merge_motion_ranges(raw_ranges, duration); clips_extracted = 0
Merge ==
    /\ pc = "merge"
    /\ merged' = MergedRanges(confirmed_ranges)
    /\ ranges' = merge_motion_ranges(confirmed_ranges, duration)
    /\ clips_extracted' = 0
    /\ range_pos' = 1
    /\ pc' = "export"
    /\ UNCHANGED <<config, video_idx, total_clips, duration, detector, history,
                   remerged, environment, capture>>

\* mutant of NextPos: a failed export ends the loop
NextPosStopOnError(outcome) ==
    IF outcome = "error" THEN Len(ranges) + 1 ELSE range_pos + 1

\* the loop `for start, end in ranges` moves to the next range whatever
\* extract_clip returned
NextPos(outcome) == range_pos + 1

\* extract_clip returns True only when subprocess.run raised nothing
Extracted(outcome) == outcome = "ok"

\* sorted(video_files): the paths in ascending order
InsertPath(s, p) ==
    LET k == Cardinality({i \in 1..Len(s) : s[i] <= p})
    IN  SubSeq(s, 1, k) \o <<p>> \o SubSeq(s, k + 1, Len(s))

RECURSIVE SortPaths(_)
SortPaths(s) ==
    IF s = <<>> THEN <<>>
    ELSE InsertPath(SortPaths(SubSeq(s, 1, Len(s) - 1)), s[Len(s)])

\* mutant of sorted_files: the list is taken in the order given
GivenFiles == video_files

\* enumerate(sorted(video_files), 1)
sorted_files == SortPaths(video_files)

\* the path process_video is working on
video_path == sorted_files[video_idx]

\* the digits f"{x:.3f}" keeps after the point count thousandths of a second
MillisPerSecond == 1000

\* mutant of Millis: the digits after the third are cut off
MillisTruncated(t) == (MillisPerSecond * t) \div TicksPerSecond

\* f"{x:.3f}": x seconds (t ticks) to the nearest thousandth, as the number
\* of thousandths (no t of the model lies halfway between two)
Millis(t) ==
    (2 * MillisPerSecond * t + TicksPerSecond) \div (2 * TicksPerSecond)

\* the command line of extract_clip: -i input_path, -ss f"{start:.3f}",
\* -t f"{duration:.3f}" with duration = end - start, and output_path,
\* which -y lets replace a file of that name
Command(input_path, output_path, start, end) ==
    <<input_path, Millis(start), Millis(end - start), output_path>>

\* mutant of OutputName: the name is the recording's start alone
OutputNameOfVideo(path, start) == start_time_of[path] \div TicksPerSecond

\* output_name: (video_start_time + timedelta(seconds=start)) formatted
\* with "%Y-%m-%d_%H.%M.%S", which drops the fraction of the second; the
\* name is kept as the number of whole seconds on the wall clock
OutputName(path, start) == (start_time_of[path] + start) \div TicksPerSecond

\* mutant of Exits: a missing tool is taken for a failed export
ExitsNever(outcome) == FALSE

\* except FileNotFoundError: sys.exit(1), which nothing up the call chain
\* catches
Exits(outcome) == outcome = "missing"

\* one pass of `for start, end in ranges`: extract_clip returns True, returns
\* False, or ends the process with sys.exit(1)
ExportClip(outcome) ==
    /\ pc = "export"
    /\ range_pos <= Len(ranges)
    /\ export_log' = Append(export_log,
           <<video_idx, ranges[range_pos][1], ranges[range_pos][2], outcome>>
               \o Command(video_path,
                          OutputName(video_path, ranges[range_pos][1]),
                          ranges[range_pos][1], ranges[range_pos][2]))
    /\ IF Exits(outcome)
       THEN /\ pc' = "exited"
            /\ UNCHANGED <<clips_extracted, range_pos>>
       ELSE /\ clips_extracted' =
                  IF Extracted(outcome) THEN clips_extracted + 1
                  ELSE clips_extracted
            /\ range_pos' = NextPos(outcome)
            /\ UNCHANGED pc
    /\ UNCHANGED <<config, video_idx, total_clips, duration, ranges, merged,
                   detector, samples, returned, remerged, environment, capture>>

\* process_video returns clips_extracted; total_clips += clips
FinishVideo ==
    /\ pc = "export"
    /\ range_pos > Len(ranges)
    /\ returned' = Append(returned, clips_extracted)
    /\ total_clips' = total_clips + clips_extracted
    /\ video_idx' = video_idx + 1
    /\ pc' = "next_video"
    /\ UNCHANGED <<config, video, detector, samples, export_log, remerged,
                   environment, capture>>

\* the loop of process_videos is over: the summary is printed
Finish ==
    /\ pc = "next_video"
    /\ video_idx > NumVideos
    /\ pc' = "done"
    /\ UNCHANGED <<config, video_idx, total_clips, video, detector, history,
                   remerged, environment, capture>>

----------------------------------------------------------------------------
(* The batch run *)

\* (MOTION_THRESHOLD_PERCENT_MIN, MOTION_THRESHOLD_PERCENT_MAX) settings:
\* the repository's, one whose thresholds equal the scores, one with MAX < MIN
ThresholdConfigs == {<<5, 25>>, <<10, 30>>, <<30, 10>>}
\* settings of the durations, in ticks
GapValues == {0, TicksPerSecond}
BufferValues == {0, TicksPerSecond}
MinClipValues == {0, TicksPerSecond}

InitConfig ==
    /\ \E t \in ThresholdConfigs :
          /\ MOTION_THRESHOLD_PERCENT_MIN = t[1]
          /\ MOTION_THRESHOLD_PERCENT_MAX = t[2]
    /\ MERGE_GAP \in GapValues
    /\ BUFFER_BEFORE \in BufferValues
    /\ BUFFER_AFTER \in BufferValues
    /\ MIN_CLIP_DURATION \in MinClipValues

\* no capture has been opened yet
NoCapture == <<FALSE, FALSE, 0, 0>>

InitIdle ==
    /\ capture = NoCapture
    /\ ranges = <<>>
    /\ merged = <<>>
    /\ clips_extracted = 0
    /\ range_pos = 1
    /\ frame_idx = 0
    /\ motion_frames = 0
    /\ tracking = FALSE
    /\ track_start = 0
    /\ has_dramatic_motion = FALSE
    /\ samples = <<>>
    /\ export_log = <<>>
    /\ returned = <<>>
    /\ remerged = <<>>

\* the lists process_videos can be given: the paths 1..NumVideos (numbered
\* in the lexicographic order of their names), ascending or descending
VideoLists ==
    {[i \in 1..NumVideos |-> i], [i \in 1..NumVideos |-> NumVideos + 1 - i]}

Init ==
    /\ InitConfig
    /\ InitIdle
    /\ duration = 0
    /\ fps = FALLBACK_FPS
    /\ confirmed_ranges = <<>>
    /\ pc = "next_video"
    /\ video_idx = 1
    /\ total_clips = 0
    /\ frame_limit = MaxFrames
    /\ video_files \in VideoLists
    /\ start_time_of = [p \in 1..NumVideos |-> 0]

Next ==
    \/ \E opened \in BOOLEAN, reopened \in BOOLEAN, reported_fps \in FpsValues,
          frame_count \in FrameCountValues :
          StartVideo(opened, reopened, reported_fps, frame_count)
    \/ SkipFrame
    \/ \E frame_max_area \in ScoreValues : SampleFrame(frame_max_area)
    \/ EndOfStream
    \/ Merge
    \/ \E outcome \in ExportOutcomes : ExportClip(outcome)
    \/ FinishVideo
    \/ Finish

Spec == Init /\ [][Next]_vars

----------------------------------------------------------------------------
(* One call of detect_motion_ranges_with_progress on a longer video, with   *)
(* the duration argument any of ScanDurations                               *)

\* frames the scanned video can hold: seven samples at stride FRAME_SKIP
MaxScanFrames == 28
\* fps values the detector works with (the reported one, or FALLBACK_FPS)
ScanFps == {DetectorFps(f) : f \in FpsValues}
\* the duration argument: that of MaxScanFrames frames at FRAME_SKIP fps
\* (7 s), and 2 s
ScanDurations ==
    {2 * TicksPerSecond, (MaxScanFrames * TicksPerSecond) \div FRAME_SKIP}

DetectInit ==
    /\ \E t \in ThresholdConfigs :
          /\ MOTION_THRESHOLD_PERCENT_MIN = t[1]
          /\ MOTION_THRESHOLD_PERCENT_MAX = t[2]
    /\ MERGE_GAP = 0
    /\ BUFFER_BEFORE = 0
    /\ BUFFER_AFTER = 0
    /\ MIN_CLIP_DURATION = 0
    /\ InitIdle
    /\ duration \in ScanDurations
    /\ fps \in ScanFps
    /\ confirmed_ranges = <<>>
    /\ pc = "scan"
    /\ video_idx = 1
    /\ total_clips = 0
    /\ frame_limit = MaxScanFrames
    /\ video_files = <<1>>
    /\ start_time_of = <<0>>

DetectNext ==
    \/ SkipFrame
    \/ \E frame_max_area \in ScoreValues : SampleFrame(frame_max_area)
    \/ EndOfStream

DetectSpec == DetectInit /\ [][DetectNext]_vars

----------------------------------------------------------------------------
(* Claims about the detector *)

\* the scan of the current video is running or has just returned
Scanning == pc \in {"scan", "merge"}

\* sample k of the current scan is at or above MIN / MAX
LowAt(k) == AboveMin(samples[k][2])
HighAt(k) == AboveMax(samples[k][2])

\* range r holds the timestamp of a sample at or above MAX
HoldsPeak(r) ==
    \E k \in 1..Len(samples) :
        /\ r[1] <= samples[k][1]
        /\ samples[k][1] <= r[2]
        /\ HighAt(k)

\* C1: with MIN <= MAX, every range the detector has emitted, flushed on a
\* frame below MIN or appended at the end of the stream, holds the timestamp
\* of a sampled frame at or above MAX.
C1_EveryRangeHoldsPeak ==
    (Scanning /\ MOTION_THRESHOLD_PERCENT_MIN <= MOTION_THRESHOLD_PERCENT_MAX)
        => \A i \in 1..Len(confirmed_ranges) : HoldsPeak(confirmed_ranges[i])

\* The same for the scans whose duration argument is no earlier than the
\* last sample read (not a claim's formula: the case C1 does hold in).
PeakHeldWhenDurationCoversScan ==
    (/\ Scanning
     /\ MOTION_THRESHOLD_PERCENT_MIN <= MOTION_THRESHOLD_PERCENT_MAX
     /\ \A k \in 1..Len(samples) : samples[k][1] <= duration)
        => \A i \in 1..Len(confirmed_ranges) : HoldsPeak(confirmed_ranges[i])

\* range r starts at sample k, the first at or above MIN after an idle
\* detector, and ends at the first later sample below MIN, or at the
\* duration when the stream ended before such a sample
BoundedBy(r, k) ==
    /\ LowAt(k)
    /\ k = 1 \/ ~LowAt(k - 1)
    /\ r[1] = samples[k][1]
    /\ \/ \E m \in (k + 1)..Len(samples) :
             /\ ~LowAt(m)
             /\ \A j \in k..(m - 1) : LowAt(j)
             /\ r[2] = samples[m][1]
       \/ /\ \A j \in k..Len(samples) : LowAt(j)
          /\ pc = "merge"
          /\ r[2] = duration

\* the scenario: one sample per second (stride FRAME_SKIP at FRAME_SKIP fps),
\* MIN 0.05 %, MAX 0.25 %, seven samples scoring 0, 0, 0.10 %, 0.30 %,
\* 0.10 %, 0, 0 of the frame area
ScenarioScores == <<0, 0, 10, 30, 10, 0, 0>>
ScenarioRun ==
    /\ Scanning
    /\ fps = FRAME_SKIP
    /\ MOTION_THRESHOLD_PERCENT_MIN = 5
    /\ MOTION_THRESHOLD_PERCENT_MAX = 25
    /\ Len(samples) = Len(ScenarioScores)
    /\ \A k \in 1..Len(samples) : samples[k][2] = ScenarioScores[k]

\* C2: every emitted range starts at the first sample at or above MIN seen
\* while idle and ends at the first later sample below MIN, or at the
\* duration when the stream ends first; the scenario yields the one range
\* from second 2 to second 5.
C2_RangeBoundaries ==
    /\ Scanning =>
          \A i \in 1..Len(confirmed_ranges) :
              \E k \in 1..Len(samples) : BoundedBy(confirmed_ranges[i], k)
    /\ ScenarioRun =>
          confirmed_ranges = << <<2 * TicksPerSecond, 5 * TicksPerSecond>> >>

\* the scenario has run to its last sample
C2_Witness == ScenarioRun /\ pc = "merge"

\* a video that starts at or above MIN: its range starts at the first
\* sample, and the stream ended while it was tracked
C2_WitnessEndOfStream ==
    /\ pc = "merge"
    /\ Len(samples) >= 2
    /\ \A k \in 1..Len(samples) : LowAt(k)
    /\ confirmed_ranges = << <<samples[1][1], duration>> >>

\* C3: the ranges emitted so far are in non-decreasing order of start, and
\* each starts no earlier than the one before it ends.
C3_OrderedDisjoint ==
    Scanning =>
        \A i \in 1..(Len(confirmed_ranges) - 1) :
            /\ confirmed_ranges[i][1] <= confirmed_ranges[i + 1][1]
            /\ confirmed_ranges[i][2] <= confirmed_ranges[i + 1][1]

\* three ranges, the last one appended at the end of the stream
C3_Witness ==
    /\ pc = "merge"
    /\ Len(confirmed_ranges) = 3
    /\ tracking /\ has_dramatic_motion
    /\ confirmed_ranges[3] = <<track_start, duration>>

\* C4: with MAX < MIN the configuration is rejected before any scan: no
\* frame is scored and no range is emitted.
C4_InvalidThresholdsRejected ==
    MOTION_THRESHOLD_PERCENT_MAX < MOTION_THRESHOLD_PERCENT_MIN
        => /\ samples = <<>>
           /\ confirmed_ranges = <<>>
           /\ pc \notin {"scan", "merge", "export"}

----------------------------------------------------------------------------
(* merge_motion_ranges applied to any list of ranges, and applied again to  *)
(* its own result                                                           *)

\* ranges in the list given to merge_motion_ranges
MaxRaw == 3
\* range boundaries and video durations
HarnessTimes == {0, 2, 4, 6, 8}
\* ranges with start <= end
HarnessRanges == {r \in HarnessTimes \X HarnessTimes : r[1] <= r[2]}
HarnessLists ==
    UNION {[1..n -> HarnessRanges] : n \in 0..MaxRaw}
HarnessGaps == {0, 2, 5}
HarnessBuffers == {0, 2}
HarnessMinClips == {0, 4}
HarnessDurations == {4, 8}

MergeInit ==
    /\ MOTION_THRESHOLD_PERCENT_MIN = 5
    /\ MOTION_THRESHOLD_PERCENT_MAX = 25
    /\ MERGE_GAP \in HarnessGaps
    /\ BUFFER_BEFORE \in HarnessBuffers
    /\ BUFFER_AFTER \in HarnessBuffers
    /\ MIN_CLIP_DURATION \in HarnessMinClips
    /\ InitIdle
    /\ duration \in HarnessDurations
    /\ fps = FALLBACK_FPS
    /\ confirmed_ranges \in HarnessLists
    /\ pc = "merge"
    /\ video_idx = 1
    /\ total_clips = 0
    /\ frame_limit = 0
    /\ video_files = <<1>>
    /\ start_time_of = <<0>>

\* merge_motion_ranges(ranges, duration) on the list it returned
Remerge ==
    /\ pc = "export"
    /\ remerged' = merge_motion_ranges(ranges, duration)
    /\ pc' = "remerged"
    /\ UNCHANGED <<config, video_idx, total_clips, video, detector, history,
                   environment, capture>>

MergeNext == Merge \/ Remerge

MergeSpec == MergeInit /\ [][MergeNext]_vars

----------------------------------------------------------------------------
(* Claims about merge_motion_ranges *)

\* merge_motion_ranges has just returned `ranges`
MergeDone == pc = "export"

\* each range of the list starts no earlier than the one before it starts
\* and no earlier than the one before it ends
SortedDisjoint(list) ==
    \A i \in 1..(Len(list) - 1) :
        /\ list[i][1] <= list[i + 1][1]
        /\ list[i][2] <= list[i + 1][1]

\* C5 as stated: for every list of ranges and every setting, the returned
\* list is ascending by start and its ranges are disjoint or touching.
C5_SortedDisjointAlways == MergeDone => SortedDisjoint(ranges)

\* C5 as amended: the same, for the settings with
\* MERGE_GAP >= BUFFER_BEFORE + BUFFER_AFTER.
C5_SortedDisjoint ==
    (MergeDone /\ MERGE_GAP >= BUFFER_BEFORE + BUFFER_AFTER)
        => SortedDisjoint(ranges)

\* an unsorted list of three ranges, two of them merged and both results
\* kept and buffered
C5_Witness ==
    /\ MergeDone
    /\ MERGE_GAP >= BUFFER_BEFORE + BUFFER_AFTER
    /\ BUFFER_BEFORE + BUFFER_AFTER > 0
    /\ Len(confirmed_ranges) = 3
    /\ confirmed_ranges[1][1] > confirmed_ranges[3][1]
    /\ Len(ranges) = 2

\* C6: every returned range lies in [0, video_duration], with start <= end.
C6_InsideVideo ==
    MergeDone =>
        \A i \in 1..Len(ranges) :
            /\ 0 <= ranges[i][1]
            /\ ranges[i][1] <= ranges[i][2]
            /\ ranges[i][2] <= duration

\* the largest end among the first i ranges of a list
PrefixMaxEnd(list, i) ==
    CHOOSE e \in {list[q][2] : q \in 1..i} :
        \A q \in 1..i : list[q][2] <= e

\* positions of a sorted list at which a new merged range begins: the first,
\* and each whose start is more than MERGE_GAP after every earlier end
Breaks(list) ==
    {i \in 1..Len(list) :
        i = 1 \/ list[i][1] - PrefixMaxEnd(list, i - 1) > MERGE_GAP}

\* the j-th position of the set B of such positions, and the last position
\* of its group in a list of n ranges
NthBreak(B, j) == CHOOSE b \in B : Cardinality({c \in B : c <= b}) = j
GroupEnd(B, n, j) == IF j = Cardinality(B) THEN n ELSE NthBreak(B, j + 1) - 1

\* range r lies within range m
Within(r, m) == m[1] <= r[1] /\ r[2] <= m[2]

\* C7: the next range of the sorted list is folded into the running one
\* exactly when its start minus the running end is <= MERGE_GAP, the end
\* becoming the larger of the two; so consecutive merged ranges are more
\* than MERGE_GAP apart and every given range lies in exactly one merged
\* range.  (2,4) and (6,8) with MERGE_GAP 5 merge to (2,8).
C7_FoldRule ==
    MergeDone =>
        LET srt == SortByStart(confirmed_ranges)
            B == Breaks(srt)
        IN  /\ Len(merged) = Cardinality(B)
            /\ \A j \in 1..Len(merged) :
                  merged[j] = <<srt[NthBreak(B, j)][1],
                                PrefixMaxEnd(srt, GroupEnd(B, Len(srt), j))>>
            /\ \A j \in 1..(Len(merged) - 1) :
                  merged[j + 1][1] - merged[j][2] > MERGE_GAP
            /\ \A i \in 1..Len(confirmed_ranges) :
                  Cardinality({j \in 1..Len(merged) :
                      Within(confirmed_ranges[i], merged[j])}) = 1
            /\ (confirmed_ranges = << <<2, 4>>, <<6, 8>> >> /\ MERGE_GAP = 5)
                  => merged = << <<2, 8>> >>

\* a range nested in the running one, then a range folded at a gap of
\* exactly MERGE_GAP from the running end
C7_Witness ==
    /\ MergeDone
    /\ MERGE_GAP > 0
    /\ Len(confirmed_ranges) = 3
    /\ confirmed_ranges[2][1] > confirmed_ranges[1][1]
    /\ confirmed_ranges[2][2] < confirmed_ranges[1][2]
    /\ confirmed_ranges[3][1] - confirmed_ranges[1][2] = MERGE_GAP
    /\ Len(merged) = 1

\* the example of C7
C7_WitnessExample ==
    /\ MergeDone
    /\ confirmed_ranges = << <<2, 4>>, <<6, 8>> >>
    /\ MERGE_GAP = 5
    /\ merged = << <<2, 8>> >>

\* positions of `merged` whose un-buffered duration is at least
\* MIN_CLIP_DURATION
LongEnough ==
    {j \in 1..Len(merged) : merged[j][2] - merged[j][1] >= MIN_CLIP_DURATION}

\* C8: a merged range is dropped iff its un-buffered duration is below
\* MIN_CLIP_DURATION (kept when equal), whatever its buffered span: the
\* returned list is the buffered ranges of exactly the others, in order.
C8_FilterBeforeBuffer ==
    MergeDone =>
        /\ Len(ranges) = Cardinality(LongEnough)
        /\ \A j \in LongEnough :
              ranges[Cardinality({q \in LongEnough : q <= j})] =
                  <<Max(0, merged[j][1] - BUFFER_BEFORE),
                    Min(duration, merged[j][2] + BUFFER_AFTER)>>

\* a merged range of half MIN_CLIP_DURATION is dropped though its buffered
\* span is not below MIN_CLIP_DURATION, and one of exactly MIN_CLIP_DURATION
\* is kept
C8_Witness ==
    /\ MergeDone
    /\ Len(merged) = 2
    /\ Len(ranges) = 1
    /\ 2 * (merged[1][2] - merged[1][1]) = MIN_CLIP_DURATION
    /\ merged[1][2] - merged[1][1] > 0
    /\ Min(duration, merged[1][2] + BUFFER_AFTER)
           - Max(0, merged[1][1] - BUFFER_BEFORE) >= MIN_CLIP_DURATION
    /\ merged[2][2] - merged[2][1] = MIN_CLIP_DURATION
    /\ merged[2][2] <= duration

\* consecutive ranges of a list are more than MERGE_GAP apart
GapsExceed(list) ==
    \A i \in 1..(Len(list) - 1) : list[i + 1][1] - list[i][2] > MERGE_GAP

\* C9: when the gaps of the returned list all exceed MERGE_GAP, merging it
\* again returns as many ranges.
C9_RemergeKeepsCount ==
    (pc = "remerged" /\ GapsExceed(ranges)) => Len(remerged) = Len(ranges)

\* The same for lists whose ranges all end within the video (not a claim's
\* formula: the case C9 does hold in).
RemergeKeepsCountInsideVideo ==
    (/\ pc = "remerged"
     /\ GapsExceed(ranges)
     /\ \A i \in 1..Len(confirmed_ranges) : confirmed_ranges[i][2] <= duration)
        => Len(remerged) = Len(ranges)

\* The same as C6 for lists whose ranges all end within the video (not a
\* claim's formula: the case C6 does hold in).
InsideVideoWhenRangesAre ==
    (/\ MergeDone
     /\ \A i \in 1..Len(confirmed_ranges) :
           /\ confirmed_ranges[i][1] <= confirmed_ranges[i][2]
           /\ confirmed_ranges[i][2] <= duration)
        => \A i \in 1..Len(ranges) :
               /\ 0 <= ranges[i][1]
               /\ ranges[i][1] <= ranges[i][2]
               /\ ranges[i][2] <= duration

----------------------------------------------------------------------------
(* Claims about the export loop *)

\* exporter calls in the log that succeeded
OkCount(log) == Cardinality({k \in 1..Len(log) : log[k][4] = "ok"})

\* the log holds one call per range of `ranges` up to position n, in order,
\* none of them finding the tool missing
LoggedUpTo(n) ==
    /\ Len(export_log) = n
    /\ \A k \in 1..n :
          /\ export_log[k][2] = ranges[k][1]
          /\ export_log[k][3] = ranges[k][2]
          /\ export_log[k][4] \in {"ok", "error"}

\* C10: a failed export is not counted, the ranges after it and the videos
\* after it are still attempted, and process_video returns the number of
\* the video's ranges whose export succeeded.
C10_FailureIsLocal ==
    /\ pc = "export" =>
          /\ LoggedUpTo(range_pos - 1)
          /\ clips_extracted = OkCount(export_log)
    /\ (pc \in {"next_video", "done"} /\ returned # <<>>) =>
          /\ LoggedUpTo(Len(ranges))
          /\ returned[Len(returned)] = OkCount(export_log)
          /\ Len(returned) = video_idx - 1
    /\ pc = "done" => Len(returned) = NumVideos
    /\ pc = "exited" =>
          /\ export_log # <<>>
          /\ export_log[Len(export_log)][4] = "missing"

\* the first video's first export failed, its second succeeded and counted,
\* and the second video went on to export a clip
C10_Witness ==
    /\ pc = "done"
    /\ returned[1] = 1
    /\ returned[2] = 1
    /\ total_clips = 2
    /\ Len(ranges) = 2
    /\ export_log[1][4] = "error"
    /\ export_log[2][4] = "ok"

\* the last exporter call of the log found the tool missing
ToolMissing ==
    export_log # <<>> /\ export_log[Len(export_log)][4] = "missing"

\* C11: the export attempt that finds the tool missing ends the run: it is
\* the last exporter call, no frame is read after it, no video is started
\* after it and nothing is returned after it.
C11_MissingToolEndsRun ==
    /\ [](ToolMissing => pc = "exited")
    /\ [][ToolMissing => UNCHANGED vars]_vars

\* the tool was missing with a range of the first video still to export and
\* the second video still to process
C11_Witness ==
    /\ pc = "exited"
    /\ ToolMissing
    /\ range_pos < Len(ranges)
    /\ video_idx < NumVideos

----------------------------------------------------------------------------
(* Claims about unreadable videos and videos without a frame rate *)

\* process_videos is about to call process_video
Calling == pc = "next_video" /\ video_idx <= NumVideos

\* C12: a video whose source does not open has duration 0 and is skipped:
\* process_video returns 0 for it, no frame is read or scored for it, the
\* exporter is not called for it, and the call changes nothing a later
\* video depends on (the settings, the list, the total so far); the next
\* video is the next in line.
C12_UnreadableSkipped ==
    [][(Calling /\ ~capture'[1]) =>
          /\ duration' = 0
          /\ returned' = Append(returned, 0)
          /\ total_clips' = total_clips
          /\ samples' = <<>>
          /\ export_log' = <<>>
          /\ pc' = "next_video"
          /\ video_idx' = video_idx + 1
          /\ UNCHANGED <<config, environment, detector>>]_vars

\* the second video does not open after the first one gave a clip, and the
\* first one's clip still counts
C12_Witness ==
    /\ pc = "next_video"
    /\ ~capture[1]
    /\ duration = 0
    /\ returned = <<1, 0>>
    /\ total_clips = 1

\* A video that opens but delivers no frame gives no range and no exporter
\* call either (not a claim's formula).
NoFrameNoClip ==
    (pc \in {"merge", "export"} /\ frame_idx = 0)
        => /\ confirmed_ranges = <<>>
           /\ ranges = <<>>
           /\ export_log = <<>>

\* C13: a video that opens and reports a frame rate <= 0 is still scanned,
\* with FALLBACK_FPS as its frame rate.
C13_FallbackFpsApplied ==
    [][(Calling /\ capture'[1] /\ capture'[2] /\ capture'[3] <= 0) =>
          /\ pc' = "scan"
          /\ fps' = FALLBACK_FPS
          /\ video_idx' = video_idx]_vars

----------------------------------------------------------------------------
(* Claims about the order of the pipeline *)

\* the i-th smallest path of the list given to process_videos
NthPath(i) ==
    CHOOSE q \in {video_files[k] : k \in 1..Len(video_files)} :
        Cardinality({k \in 1..Len(video_files) : video_files[k] <= q}) = i

\* the step reads a frame / calls the exporter
ReadsFrame == frame_idx' # frame_idx /\ frame_idx' # 0
CallsExporter == Len(export_log') > Len(export_log)

\* C14: a frame is read only while the video's scan is running, before the
\* merge and before any export of that video; once the scan has ended the
\* detector's result stays as it is through the merge and the exports;
\* every exporter call is for the video in hand, which is the next of the
\* paths in sorted order, and the videos are taken one by one; each scan
\* starts with a fresh detector.
C14_PipelineOrder ==
    /\ [][ReadsFrame =>
             /\ pc = "scan" /\ pc' = "scan"
             /\ export_log = <<>> /\ ranges = <<>> /\ merged = <<>>
             /\ video_idx' = video_idx]_vars
    /\ [][(pc = "merge" \/ pc = "export") =>
             /\ UNCHANGED <<frame_idx, samples, confirmed_ranges>>
             /\ UNCHANGED <<tracking, track_start, has_dramatic_motion>>]_vars
    /\ [][CallsExporter =>
             /\ pc = "export"
             /\ export_log'[Len(export_log')][1] = video_idx
             /\ export_log'[Len(export_log')][5] = NthPath(video_idx)
             /\ video_idx' = video_idx]_vars
    /\ [][video_idx' # video_idx =>
             /\ video_idx' = video_idx + 1
             /\ pc' = "next_video"]_vars
    /\ [](\A k \in 1..Len(export_log) : export_log[k][1] = video_idx
                \/ pc \in {"next_video", "done"})
    /\ []((pc = "scan" /\ frame_idx = 0) =>
             /\ ~tracking
             /\ track_start = 0
             /\ ~has_dramatic_motion
             /\ confirmed_ranges = <<>>
             /\ motion_frames = 0
             /\ samples = <<>>)

\* the list was given in descending order; the first video in sorted order
\* ended its scan while tracking a confirmed range and gave a clip; the
\* second is now at its first frame
C14_Witness ==
    /\ video_files[1] > video_files[2]
    /\ pc = "scan"
    /\ video_idx = 2
    /\ frame_idx = 0
    /\ returned = <<1>>

\* the exporter is called for the second video, the larger path
C14_WitnessExport ==
    /\ video_files[1] > video_files[2]
    /\ pc = "export"
    /\ video_idx = 2
    /\ export_log # <<>>
    /\ export_log[1][5] = 2
    /\ returned = <<1>>

\* the exporter calls so far are one for each of the first n ranges of
\* `ranges`, in the order of the list, each with that range's start and end
\* and the path of the video it was made for
CallsMatch(n) ==
    /\ Len(export_log) = n
    /\ \A k \in 1..n :
          /\ export_log[k][2] = ranges[k][1]
          /\ export_log[k][3] = ranges[k][2]
          /\ export_log[k][5] = NthPath(export_log[k][1])
    /\ \A k \in 1..(n - 1) : export_log[k][2] <= export_log[k + 1][2]

\* C15: the exporter is called once for each range that merge_motion_ranges
\* returned, in ascending order, with that range's start and end and the
\* video's own path; the ranges it is called for are the merged ranges that
\* passed the minimum-duration filter, never a range of the detector that
\* was merged away or dropped; it is not called when the list is empty, nor
\* before the merge.
C15_OneCallPerRange ==
    /\ pc \in {"scan", "merge"} => export_log = <<>>
    /\ pc = "export" => CallsMatch(range_pos - 1)
    /\ pc = "exited" => CallsMatch(range_pos)
    /\ pc \in {"next_video", "done"} => CallsMatch(Len(ranges))
    /\ pc \in {"export", "exited", "next_video", "done"} =>
          /\ Len(ranges) = Cardinality(LongEnough)
          /\ Len(ranges) <= Len(confirmed_ranges)
          /\ ranges = <<>> => export_log = <<>>

\* the detector gave two ranges, the merger returned one, and the video
\* ended with one exporter call
C15_Witness ==
    /\ pc = "next_video"
    /\ Len(confirmed_ranges) = 2
    /\ Len(ranges) = 1
    /\ Len(export_log) = 1
    /\ export_log[1][4] = "ok"

\* the detector gave ranges, the merger returned none, and the video ended
\* without an exporter call
C15_WitnessNoCall ==
    /\ pc = "next_video"
    /\ Len(confirmed_ranges) = 1
    /\ ranges = <<>>
    /\ export_log = <<>>
    /\ returned = <<0>>

----------------------------------------------------------------------------
(* Claims about confirmation *)

\* no sample of the current video is at or above MAX
NoPeak == \A k \in 1..Len(samples) : ~HighAt(k)

\* the samples of the span being tracked: the last ones, back to the latest
\* sample below MIN
CurrentSpan ==
    {k \in 1..Len(samples) : \A j \in k..Len(samples) : LowAt(j)}

\* C16: when no sample is at or above MAX, whether or not samples reach MIN,
\* the detector emits no range, the merger returns none, the exporter is not
\* called and the video gives 0 clips; and a span being tracked is
\* confirmed exactly when one of its own samples is at or above MAX,
\* whatever the spans before it held.
C16_UnconfirmedEmitsNothing ==
    /\ (pc \in {"scan", "merge", "export", "exited"} /\ NoPeak) =>
          /\ confirmed_ranges = <<>>
          /\ ranges = <<>>
          /\ export_log = <<>>
          /\ clips_extracted = 0
    /\ (pc \in {"next_video", "done"} /\ returned # <<>> /\ NoPeak) =>
          returned[Len(returned)] = 0
    /\ (Scanning /\ tracking) =>
          (has_dramatic_motion <=> \E k \in CurrentSpan : HighAt(k))

\* two spans reached MIN, none reached MAX, and the video gave no clip
C16_Witness ==
    /\ pc = "next_video"
    /\ Len(samples) = 3
    /\ LowAt(1) /\ ~LowAt(2) /\ LowAt(3)
    /\ NoPeak
    /\ motion_frames = 2
    /\ returned = <<0>>

\* a confirmed span was emitted, and the span after it, still tracked when
\* the stream ended, is not confirmed and not emitted
C16_WitnessNoCarryOver ==
    /\ pc = "merge"
    /\ Len(samples) = 3
    /\ HighAt(1) /\ ~LowAt(2) /\ LowAt(3) /\ ~HighAt(3)
    /\ tracking /\ ~has_dramatic_motion
    /\ Len(confirmed_ranges) = 1

----------------------------------------------------------------------------
(* Claims about the shape of the emitted ranges *)

\* C17: every range the detector has emitted, the one appended at the end
\* of the stream included, has start <= end.
C17_StartBeforeEnd ==
    Scanning =>
        \A i \in 1..Len(confirmed_ranges) :
            confirmed_ranges[i][1] <= confirmed_ranges[i][2]

\* The same for the scans whose duration is no earlier than the last sample
\* read (not a claim's formula: the case C17 does hold in).
StartBeforeEndWhenDurationCoversScan ==
    (Scanning /\ \A k \in 1..Len(samples) : samples[k][1] <= duration)
        => \A i \in 1..Len(confirmed_ranges) :
               confirmed_ranges[i][1] <= confirmed_ranges[i][2]

----------------------------------------------------------------------------
(* Claims about frame sampling *)

\* frames read so far whose index is a multiple of FRAME_SKIP
StrideFrames == {i \in 0..(frame_idx - 1) : i % FRAME_SKIP = 0}

\* ticks between two frames FRAME_SKIP apart
StrideTicks == (FRAME_SKIP * TicksPerSecond) \div fps

\* the step reads the frame with index frame_idx
ReadsNext == pc = "scan" /\ frame_idx' = frame_idx + 1

\* C18: the frames scored are exactly the frames read whose index is a
\* multiple of FRAME_SKIP, in increasing order of index, sample k being
\* frame (k - 1) * FRAME_SKIP at time index / fps, so consecutive samples
\* are FRAME_SKIP / fps apart; reading any other frame leaves the frames
\* presented to the background model, tracking, track_start, the
\* confirmation, the emitted ranges and the motion-frame count unchanged.
C18_StrideSampling ==
    /\ [](Scanning =>
             /\ Len(samples) = Cardinality(StrideFrames)
             /\ \A k \in 1..Len(samples) :
                   /\ (k - 1) * FRAME_SKIP \in StrideFrames
                   /\ samples[k][1] =
                          ((k - 1) * FRAME_SKIP * TicksPerSecond) \div fps
             /\ \A k \in 1..(Len(samples) - 1) :
                   samples[k + 1][1] - samples[k][1] = StrideTicks)
    /\ [][(ReadsNext /\ frame_idx % FRAME_SKIP # 0) =>
             /\ UNCHANGED <<samples, tracking, track_start>>
             /\ UNCHANGED <<has_dramatic_motion, confirmed_ranges>>
             /\ motion_frames' = motion_frames]_vars
    /\ [][(ReadsNext /\ frame_idx % FRAME_SKIP = 0) =>
             /\ Len(samples') = Len(samples) + 1
             /\ SubSeq(samples', 1, Len(samples)) = samples]_vars

\* seven frames have been scored out of twenty-six read, and the last frame
\* read was skipped while a confirmed span was being tracked
C18_Witness ==
    /\ pc = "scan"
    /\ frame_idx = MaxScanFrames - 2
    /\ Len(samples) = 7
    /\ tracking /\ has_dramatic_motion
    /\ Len(confirmed_ranges) = 1
    /\ motion_frames = 4

----------------------------------------------------------------------------
(* Claims about the exporter's command line *)

AbsDiff(a, b) == IF a >= b THEN a - b ELSE b - a

\* t ticks and m thousandths of a second are the same time
SameTime(t, m) == m * TicksPerSecond = t * MillisPerSecond

\* t ticks and m thousandths of a second differ by at most half a
\* thousandth
NearestMilli(t, m) ==
    2 * AbsDiff(m * TicksPerSecond, t * MillisPerSecond) <= TicksPerSecond

\* t ticks is a whole number of thousandths of a second
WholeMillis(t) == (t * MillisPerSecond) % TicksPerSecond = 0

\* C19 as stated: the -ss and -t values of every exporter call equal the
\* range's start and its end - start exactly.
C19_FullPrecision ==
    \A k \in 1..Len(export_log) :
        /\ SameTime(export_log[k][2], export_log[k][6])
        /\ SameTime(export_log[k][3] - export_log[k][2], export_log[k][7])

\* C19 as amended: extract_clip is called with the range's own start and
\* end; the -ss and -t values it hands to the tool are the start and
\* end - start to the nearest thousandth of a second, exact only for whole
\* thousandths.
C19_MillisecondPrecision ==
    \A k \in 1..Len(export_log) :
        LET start == export_log[k][2]
            end == export_log[k][3]
        IN  /\ pc \in {"export", "exited"} => <<start, end>> = ranges[k]
            /\ NearestMilli(start, export_log[k][6])
            /\ NearestMilli(end - start, export_log[k][7])
            /\ WholeMillis(start) <=> SameTime(start, export_log[k][6])
            /\ WholeMillis(end - start)
                   <=> SameTime(end - start, export_log[k][7])

\* a clip was exported whose start is 8/30 s, not a whole number of
\* thousandths
C19_Witness ==
    /\ export_log # <<>>
    /\ export_log[1][4] = "ok"
    /\ ~WholeMillis(export_log[1][2])
    /\ ~SameTime(export_log[1][2], export_log[1][6])
    /\ WholeMillis(export_log[1][3])

----------------------------------------------------------------------------
(* Claims about the detector's state *)

\* C20: between frames, in every state of the scan, has_dramatic_motion
\* implies tracking, so an idle detector is never confirmed; and while
\* tracking, track_start is the time of a sample already scored that was at
\* or above MIN, and is no later than the latest sample.
C20_DetectorStateInvariant ==
    Scanning =>
        /\ has_dramatic_motion => tracking
        /\ ~tracking => ~has_dramatic_motion
        /\ tracking =>
              /\ \E k \in 1..Len(samples) :
                    samples[k][1] = track_start /\ LowAt(k)
              /\ track_start <= samples[Len(samples)][1]

\* a confirmed span was flushed, the detector went idle, and a new span is
\* tracked and confirmed that started before the latest sample
C20_Witness ==
    /\ pc = "scan"
    /\ Len(confirmed_ranges) = 1
    /\ tracking /\ has_dramatic_motion
    /\ track_start > confirmed_ranges[1][2]
    /\ track_start < samples[Len(samples)][1]

\* the detector is idle after flushing a confirmed span
C20_WitnessIdle ==
    /\ pc = "scan"
    /\ Len(confirmed_ranges) = 2
    /\ ~tracking /\ ~has_dramatic_motion
    /\ samples[Len(samples)][1] = confirmed_ranges[2][2]

----------------------------------------------------------------------------
(* Claims about what the detector returns *)

\* positions of the returned ranges that hold the time of sample k
RangesHolding(k) ==
    {i \in 1..Len(confirmed_ranges) :
        /\ confirmed_ranges[i][1] <= samples[k][1]
        /\ samples[k][1] <= confirmed_ranges[i][2]}

\* the duration is no earlier than the last sample
DurationCoversScan == \A k \in 1..Len(samples) : samples[k][1] <= duration

\* C21: with MIN <= MAX and a duration no earlier than the last sample, the
\* time of every sample at or above MAX lies in exactly one of the ranges
\* the detector returns at the end of the stream.
C21_EveryPeakInOneRange ==
    (/\ pc = "merge"
     /\ MOTION_THRESHOLD_PERCENT_MIN <= MOTION_THRESHOLD_PERCENT_MAX
     /\ DurationCoversScan)
        => \A k \in 1..Len(samples) :
               HighAt(k) => Cardinality(RangesHolding(k)) = 1

\* three spans held a peak: two were flushed on a frame below MIN, the
\* third, with two peaks, was appended when the stream ended
C21_Witness ==
    /\ pc = "merge"
    /\ MOTION_THRESHOLD_PERCENT_MIN <= MOTION_THRESHOLD_PERCENT_MAX
    /\ DurationCoversScan
    /\ Len(samples) = 7
    /\ HighAt(1) /\ HighAt(4) /\ HighAt(6) /\ HighAt(7)
    /\ Len(confirmed_ranges) = 3
    /\ confirmed_ranges[3][2] = duration

----------------------------------------------------------------------------
(* Claims about the separation of the returned ranges *)

\* each range of the list starts after the one before it ends
StrictlyApart(list) ==
    \A i \in 1..(Len(list) - 1) : list[i][2] < list[i + 1][1]

\* C22: when MERGE_GAP >= BUFFER_BEFORE + BUFFER_AFTER, any two consecutive
\* ranges merge_motion_ranges returns are strictly disjoint: the later one
\* starts after the earlier one ends, so no instant of the video lies in
\* two of them.
C22_StrictlyDisjoint ==
    (MergeDone /\ MERGE_GAP >= BUFFER_BEFORE + BUFFER_AFTER)
        => /\ StrictlyApart(ranges)
           /\ \A i, j \in 1..Len(ranges) :
                 (i < j /\ ranges[i][1] <= ranges[i][2])
                     => ranges[i][2] < ranges[j][1]

\* two ranges were returned with MERGE_GAP no less than the two buffers
\* together, both buffers applied in full between them
C22_Witness ==
    /\ MergeDone
    /\ MERGE_GAP >= BUFFER_BEFORE + BUFFER_AFTER
    /\ BUFFER_BEFORE > 0 /\ BUFFER_AFTER > 0
    /\ Len(ranges) = 2
    /\ ranges[1][2] = merged[1][2] + BUFFER_AFTER
    /\ ranges[2][1] = merged[2][1] - BUFFER_BEFORE

----------------------------------------------------------------------------
(* process_video from the merge on, for one video whose ranges and settings *)
(* are on a grid of half seconds                                            *)

\* ranges in the list the detector returned
MaxClipRaw == 2
\* range boundaries: 0 s to 2.5 s in half seconds
ClipTimes == {0, 30, 60, 90, 120, 150}
ClipRanges == {r \in ClipTimes \X ClipTimes : r[1] <= r[2]}
ClipLists == UNION {[1..n -> ClipRanges] : n \in 0..MaxClipRaw}
\* settings: 0 s, 0.5 s, 1 s
ClipGaps == {0, 30, 60}
ClipBuffers == {0, 30}
ClipMinClips == {0, 30}
\* the recording starts on a whole second, or three quarters into one
ClipStartTimes == {0, 45}

ClipInit ==
    /\ MOTION_THRESHOLD_PERCENT_MIN = 5
    /\ MOTION_THRESHOLD_PERCENT_MAX = 25
    /\ MERGE_GAP \in ClipGaps
    /\ BUFFER_BEFORE \in ClipBuffers
    /\ BUFFER_AFTER \in ClipBuffers
    /\ MIN_CLIP_DURATION \in ClipMinClips
    /\ InitIdle
    /\ duration = 2 * TicksPerSecond
    /\ fps = FALLBACK_FPS
    /\ confirmed_ranges \in ClipLists
    /\ pc = "merge"
    /\ video_idx = 1
    /\ total_clips = 0
    /\ frame_limit = 0
    /\ video_files = <<1>>
    /\ \E t \in ClipStartTimes : start_time_of = <<t>>

ClipNext ==
    \/ Merge
    \/ \E outcome \in ExportOutcomes : ExportClip(outcome)
    \/ FinishVideo

ClipSpec == ClipInit /\ [][ClipNext]_vars

----------------------------------------------------------------------------
(* Claims about the output files *)

\* every exporter call so far has the output name of the whole second the
\* recording's start plus the range's start falls in
NamedBySecond ==
    \A k \in 1..Len(export_log) :
        LET at == start_time_of[export_log[k][5]] + export_log[k][2]
        IN  /\ export_log[k][8] * TicksPerSecond <= at
            /\ at < (export_log[k][8] + 1) * TicksPerSecond

\* no two exporter calls of the video have the same output name, so -y
\* never replaces a clip of the same video
NoNameTwice ==
    \A j, k \in 1..Len(export_log) :
        j < k => export_log[j][8] # export_log[k][8]

\* C23 as stated: the output name is the recording's start plus the
\* range's start, to the whole second, and no two ranges of one video get
\* the same name.
C23_NoOverwrite == NamedBySecond /\ NoNameTwice

\* the settings keep the starts of two returned ranges more than a second
\* apart
StartsSecondsApart ==
    MIN_CLIP_DURATION + MERGE_GAP - BUFFER_BEFORE >= TicksPerSecond

\* C23 as amended: the same, for the settings with
\* MIN_CLIP_DURATION + MERGE_GAP - BUFFER_BEFORE >= 1 s.
C23_NoOverwriteWhenApart ==
    /\ NamedBySecond
    /\ StartsSecondsApart => NoNameTwice

\* two clips of a recording that starts three quarters into a second were
\* exported under different names, with a buffer before them
C23_Witness ==
    /\ pc = "next_video"
    /\ StartsSecondsApart
    /\ BUFFER_BEFORE > 0
    /\ start_time_of[1] = 45
    /\ Len(export_log) = 2
    /\ export_log[1][4] = "ok" /\ export_log[2][4] = "ok"
    /\ returned = <<2>>

====
